---- MODULE Spec2Model ----
(***************************************************************************)
(* A model of ldmunit's test-execution protocol (ldmunit/testing/base.py)  *)
(* and of its single/multi-subject adaptation layer                        *)
(* (ldmunit/models/utils.py).                                              *)
(*                                                                         *)
(* Three specifications share the variables:                               *)
(*   Spec       the composite model and the subject adapter: construction, *)
(*              bind, unbind and calls of the fanned-out methods;          *)
(*   SpecRun    one judge() of an InteractiveTest on a model;              *)
(*   SpecBatch  a BatchTrainAndTest: construction, predict_single and      *)
(*              compute_score_single.                                      *)
(***************************************************************************)
EXTENDS Integers, Sequences, FiniteSets, TLC

\* ------------------------------------------------------------- bounds
MaxInst == 1
MaxSubj == 2
MaxDepth == 2
MaxArgs == 3
MaxParam == 2
HiddenMod == 2
MaxTrials == 2
MaxObs == 3
MaxIdx == 2
PctDen == 4

\* ------------------------------------------------------------ helpers
None == "None"

Put(f, k, v) ==
    [x \in (DOMAIN f) \cup {k} |-> IF x = k THEN v ELSE f[x]]

Remove(f, k) ==
    [x \in (DOMAIN f) \ {k} |-> f[x]]

EmptyFn ==
    [x \in {} |-> None]

Range(s) ==
    {s[k] : k \in DOMAIN s}

Last(s) ==
    s[Len(s)]

SeqsUpTo(S, n) ==
    UNION {[1..k -> S] : k \in 0..n}

\* The permutations of 1..n.
Perms(n) ==
    {f \in [1..n -> 1..n] : \A i, j \in 1..n : i # j => f[i] # f[j]}

\* ===================================================================
\*  The single-subject model (the composite's subject models)
\* ===================================================================

\* The composite's fanned-out method names, in the order the adapter's loops
\* visit them.
MethodNames ==
    <<"act", "fit", "predict", "reset", "update", "n_params">>

Methods ==
    Range(MethodNames)

\* The positional arguments each method of the single-subject model accepts
\* (self excluded): update's `done` has a default.
MinArity(fn) ==
    CASE fn = "act" -> 1
      [] fn = "fit" -> 3
      [] fn = "predict" -> 1
      [] fn = "reset" -> 0
      [] fn = "update" -> 3
      [] fn = "n_params" -> 0

MaxArity(fn) ==
    CASE fn = "act" -> 1
      [] fn = "fit" -> 3
      [] fn = "predict" -> 1
      [] fn = "reset" -> 0
      [] fn = "update" -> 4
      [] fn = "n_params" -> 0

\* A subject model's state: its parameters, abstracted to their number, and
\* its hidden state, abstracted to a residue.
NewSubject(param_dict) ==
    [paras |-> param_dict, hidden |-> 0]

\* A reset that leaves the hidden state as it is.
SubjResetKeeps(st) ==
    st

\* reset(): the hidden state returns to its initial value.
SubjReset(st) ==
    [st EXCEPT !.hidden = 0]

\* predict(stimulus): a deterministic function of parameters, hidden state
\* and stimulus; the state is left alone.
SubjPredict(st, s) ==
    (st.paras + st.hidden + s) % 2

\* update(stimulus, reward, action, done): the hidden state advances unless
\* done.
SubjUpdate(st, s, r, a, done) ==
    IF done # 0 THEN st
    ELSE [st EXCEPT !.hidden = (st.hidden + 1 + s * r + a) % HiddenMod]

\* fit(stimuli, rewards, actions): parameters are re-initialised and set to
\* the optimiser's result; the optimiser's objective resets the model.
SubjFit(st, x, r, y) ==
    [paras |-> 1 + ((x + r + y) % MaxParam), hidden |-> 0]

\* One method call on a subject model: [res, st, ret].
SubjCall(st, fn, args) ==
    IF Len(args) < MinArity(fn) \/ Len(args) > MaxArity(fn)
    THEN [res |-> "TypeError", st |-> st, ret |-> None]
    ELSE CASE fn = "reset" -> [res |-> "ok", st |-> SubjReset(st), ret |-> None]
           [] fn = "predict" -> [res |-> "ok", st |-> st, ret |-> SubjPredict(st, args[1])]
           [] fn = "act" -> [res |-> "ok", st |-> st, ret |-> SubjPredict(st, args[1])]
           [] fn = "update" ->
                [res |-> "ok",
                 st |-> SubjUpdate(st, args[1], args[2], args[3],
                                   IF Len(args) = 4 THEN args[4] ELSE 0),
                 ret |-> None]
           [] fn = "fit" -> [res |-> "ok", st |-> SubjFit(st, args[1], args[2], args[3]), ret |-> None]
           [] fn = "n_params" -> [res |-> "ok", st |-> st, ret |-> st.paras]

\* ===================================================================
\*  State
\* ===================================================================
VARIABLES
    made,             \* the composite instances constructed so far
    subject_models,   \* instance -> its sequence of subject-model states
    cls,              \* the composed class's attributes: method name -> callable
    inst,             \* instance -> its own attributes: [fns, multi]
    snap,             \* instance -> what its methods resolved to before its latest bind
    last              \* the latest operation and its outcome

VARIABLES
    test,             \* the test object: its configuration after __init__
    observation,      \* the test's observations, one entry per subject
    mut,              \* the model handed to judge(): [kind, caps, implements]
    solo,             \* the state of the single-subject model under test
    pc,               \* where the run of judge() stands
    subj_idx,         \* generate_prediction's loop variable
    predictions,      \* generate_prediction's predictions
    score_kwargs,     \* generate_prediction's per-subject scoring keywords
    score,            \* compute_score's result
    err,              \* the exception that ended the run, or None
    calls,            \* the model calls of the latest predict_single
    events            \* the harness's binds, predict_singles and unbinds

VARIABLES
    ctor,             \* the keyword arguments the test was constructed with
    kw_evals,         \* the evaluations of fn_kwargs_for_score so far
    store             \* durable storage: its directories and the files written

adapterVars ==
    <<made, subject_models, cls, inst, snap, last>>

runVars ==
    <<test, observation, mut, solo, pc, subj_idx, predictions, score_kwargs, score, err, calls, events>>

auxVars ==
    <<ctor, kw_evals, store>>

vars ==
    <<made, subject_models, cls, inst, snap, last,
      test, observation, mut, solo, pc, subj_idx, predictions, score_kwargs, score, err, calls, events,
      ctor, kw_evals, store>>

Insts ==
    1..MaxInst

\* A callable standing for a fanned-out method: `owner` is the instance whose
\* subject_models the class-level function closes over, `pre` the subject
\* indices that binds have put in front of the caller's arguments.
Callable(owner, pre) ==
    [owner |-> owner, pre |-> pre]

EmptyDict ==
    [fns |-> EmptyFn, multi |-> EmptyFn]

NoLast ==
    [op |-> "none", c |-> 0, res |-> "ok", fn |-> None, idx |-> -1, tgt |-> -1, ret |-> None]

\* ===================================================================
\*  The multi-subject composer
\* ===================================================================

\* multi_init: one subject model per entry of param_list, and the class's
\* fanned-out methods set to functions closing over this instance.
MultiInitSubjects(param_list) ==
    [k \in 1..Len(param_list) |-> NewSubject(param_list[k])]

MultiInitClass(self) ==
    [fn \in Methods |-> Callable(self, <<>>)]

\* getattr(model, fn_name): the instance's own attribute, else the class's.
GetAttr(d, clsAttrs, fn) ==
    IF fn \in DOMAIN d.fns THEN d.fns[fn] ELSE clsAttrs[fn]

\* What every fanned-out method of instance c resolves to.
Resolved(c) ==
    [fn \in Methods |-> GetAttr(inst[c], cls, fn)]

\* The binds on c that no unbind has taken back.
Outstanding(c) ==
    Len(GetAttr(inst[c], cls, MethodNames[1]).pre)

\* new_fn(idx, *args, fn_name): the call of a callable with the caller's
\* arguments: [res, subj (the new subject_models), owner, tgt, ret].
Dispatch(callable, fn, args, subj) ==
    LET full == callable.pre \o args
        o == callable.owner
    IN  IF full = <<>>
        THEN [res |-> "TypeError", subj |-> subj, owner |-> o, tgt |-> -1, ret |-> None]
        ELSE LET idx == Head(full)
             IN  IF idx >= Len(subj[o])
                 THEN [res |-> "IndexError", subj |-> subj, owner |-> o, tgt |-> -1, ret |-> None]
                 ELSE LET r == SubjCall(subj[o][idx + 1], fn, Tail(full))
                      IN  [res |-> r.res,
                           subj |-> [subj EXCEPT ![o][idx + 1] = r.st],
                           owner |-> o,
                           tgt |-> idx,
                           ret |-> r.ret]

\* ===================================================================
\*  The subject adapter
\* ===================================================================

\* single_from_multi_obj's loop over model.multi_subject_methods.
RECURSIVE BindLoop(_, _, _, _)
BindLoop(names, d, clsAttrs, bind_idx) ==
    IF names = <<>> THEN d
    ELSE LET fn == Head(names)
             old_fn == GetAttr(d, clsAttrs, fn)
             new_fn == Callable(old_fn.owner, old_fn.pre \o <<bind_idx>>)
         IN  BindLoop(Tail(names),
                      [fns |-> Put(d.fns, fn, new_fn), multi |-> Put(d.multi, fn, old_fn)],
                      clsAttrs, bind_idx)

\* A reverse loop that puts the methods back and keeps the "<name>_multi"
\* attributes (the delattr left out).
RECURSIVE ReverseLoopKeepMulti(_, _)
ReverseLoopKeepMulti(names, d) ==
    IF names = <<>> THEN [ok |-> TRUE, d |-> d]
    ELSE LET fn == Head(names)
         IN  IF fn \notin DOMAIN d.multi
             THEN [ok |-> FALSE, d |-> d]
             ELSE ReverseLoopKeepMulti(Tail(names),
                                       [fns |-> Put(d.fns, fn, d.multi[fn]), multi |-> d.multi])

\* A reverse loop that passes over a method with no "<name>_multi" attribute
\* (a hasattr guard in place of the raising getattr).
RECURSIVE ReverseLoopSkipMissing(_, _)
ReverseLoopSkipMissing(names, d) ==
    IF names = <<>> THEN [ok |-> TRUE, d |-> d]
    ELSE LET fn == Head(names)
         IN  IF fn \notin DOMAIN d.multi
             THEN ReverseLoopSkipMissing(Tail(names), d)
             ELSE ReverseLoopSkipMissing(Tail(names),
                                         [fns |-> Put(d.fns, fn, d.multi[fn]), multi |-> Remove(d.multi, fn)])

\* reverse_single_from_multi_obj's loop: [ok, d]; ok is FALSE when a
\* getattr of a "<name>_multi" attribute raised.
RECURSIVE ReverseLoop(_, _)
ReverseLoop(names, d) ==
    IF names = <<>> THEN [ok |-> TRUE, d |-> d]
    ELSE LET fn == Head(names)
         IN  IF fn \notin DOMAIN d.multi
             THEN [ok |-> FALSE, d |-> d]
             ELSE ReverseLoop(Tail(names),
                              [fns |-> Put(d.fns, fn, d.multi[fn]), multi |-> Remove(d.multi, fn)])

\* ===================================================================
\*  The test harness: LDMTest and InteractiveTest
\* ===================================================================

\* required_capabilities of sciunit's Test, which LDMTest inherits unchanged.
LDMTestRequired ==
    {}

\* InteractiveTest.required_capabilities
InteractiveRequired ==
    {"Interactive"}

\* The score_type keyword: not given, or a score class that may declare its
\* own required_capabilities.
NoScoreType ==
    [given |-> FALSE, declares |-> FALSE, required |-> {}]

ScoreTypes ==
    {NoScoreType,
     [given |-> TRUE, declares |-> FALSE, required |-> {}],
     [given |-> TRUE, declares |-> TRUE, required |-> {"PredictsLogpdf"}]}

\* LDMTest.__init__: the attributes of the test object. A score_type that
\* declares required_capabilities sets the instance's required_capabilities
\* from LDMTest's; otherwise the class attribute of the test class stands.
LDMTestInit(class_required, score_type, multi_subject, fn_kwargs_for_score) ==
    [multi_subject |-> multi_subject,
     fn_kwargs_for_score |-> fn_kwargs_for_score,
     required_capabilities |->
        IF score_type.given /\ score_type.declares
        THEN LDMTestRequired \cup score_type.required
        ELSE class_required]

NoTest ==
    LDMTestInit({}, NoScoreType, FALSE, FALSE)

NoModel ==
    [kind |-> "none", caps |-> {}, implements |-> FALSE]

NoScore ==
    [num |-> -1, den |-> -1]

\* LDMTest.check_capabilities: "ok", or the error raised.
CheckCapabilities(required, caps) ==
    IF "LDMModel" \notin caps THEN "Error"
    ELSE IF required \subseteq caps THEN "ok"
    ELSE "CapabilityError"

\* One subject's observations from its trials, a trial an integer coding
\* (stimulus, action); the reward is 1 when the action matches the stimulus.
ObsOf(tr) ==
    [stimuli |-> [k \in 1..Len(tr) |-> tr[k] % 2],
     rewards |-> [k \in 1..Len(tr) |-> IF tr[k] % 2 = tr[k] \div 2 THEN 1 ELSE 0],
     actions |-> [k \in 1..Len(tr) |-> tr[k] \div 2]]

ObsSets ==
    {ObsOf(tr) : tr \in SeqsUpTo(0..3, MaxTrials)}

\* The observations a multi-subject test draws each subject's from: n trials
\* that differ from one to the next, starting at trial coding p.
TrialPattern(p, n) ==
    [k \in 1..n |-> (p + k - 1) % 4]

MultiObsSets ==
    {ObsOf(TrialPattern(p, n)) : p \in 0..1, n \in 0..MaxTrials}

Min2(a, b) ==
    IF a <= b THEN a ELSE b

\* zip(stimuli, rewards, actions)
Zip3(x, y, z) ==
    [k \in 1..Min2(Len(x), Min2(Len(y), Len(z))) |-> <<x[k], y[k], z[k]>>]

\* model.<fn>(*args) on the model under test, in the world w = [subj, solo]:
\* the standalone single-subject model, or the composite instance 1 through
\* whatever its attribute resolves to. [res, w, ret].
ModelCall(m, d, fn, args, w) ==
    IF ~m.implements THEN [res |-> "AttributeError", w |-> w, ret |-> None]
    ELSE IF m.kind = "single"
    THEN LET r == SubjCall(w.solo, fn, args)
         IN  [res |-> r.res, w |-> [w EXCEPT !.solo = r.st], ret |-> r.ret]
    ELSE LET r == Dispatch(GetAttr(d, cls, fn), fn, args, w.subj)
         IN  [res |-> r.res, w |-> [w EXCEPT !.subj = r.subj], ret |-> r.ret]

CallRec(fn, args, ret) ==
    [fn |-> fn, args |-> args, ret |-> ret]

\* A loop that updates on a trial before it predicts from it.
RECURSIVE InteractiveLoopUpdateFirst(_, _, _, _, _)
InteractiveLoopUpdateFirst(m, d, trials, w, acc) ==
    IF trials = <<>>
    THEN [res |-> "ok", w |-> w, calls |-> acc.calls, predictions |-> acc.predictions]
    ELSE LET t == Head(trials)
             u == ModelCall(m, d, "update", <<t[1], t[2], t[3], 0>>, w)
             c1 == Append(acc.calls, CallRec("update", <<t[1], t[2], t[3], 0>>, u.ret))
         IN  IF u.res # "ok"
             THEN [res |-> u.res, w |-> u.w, calls |-> c1, predictions |-> acc.predictions]
             ELSE LET p == ModelCall(m, d, "predict", <<t[1]>>, u.w)
                      c2 == Append(c1, CallRec("predict", <<t[1]>>, p.ret))
                  IN  IF p.res # "ok"
                      THEN [res |-> p.res, w |-> p.w, calls |-> c2, predictions |-> acc.predictions]
                      ELSE InteractiveLoopUpdateFirst(m, d, Tail(trials), p.w,
                               [calls |-> c2, predictions |-> Append(acc.predictions, p.ret)])

\* InteractiveTest.predict_single's loop over zip(stimuli, rewards, actions):
\* [res, w, calls, predictions]; a call that raises ends it.
RECURSIVE InteractiveLoop(_, _, _, _, _)
InteractiveLoop(m, d, trials, w, acc) ==
    IF trials = <<>>
    THEN [res |-> "ok", w |-> w, calls |-> acc.calls, predictions |-> acc.predictions]
    ELSE LET t == Head(trials)
             p == ModelCall(m, d, "predict", <<t[1]>>, w)
             c1 == Append(acc.calls, CallRec("predict", <<t[1]>>, p.ret))
         IN  IF p.res # "ok"
             THEN [res |-> p.res, w |-> p.w, calls |-> c1, predictions |-> acc.predictions]
             ELSE LET preds == Append(acc.predictions, p.ret)
                      u == ModelCall(m, d, "update", <<t[1], t[2], t[3], 0>>, p.w)
                      c2 == Append(c1, CallRec("update", <<t[1], t[2], t[3], 0>>, u.ret))
                  IN  IF u.res # "ok"
                      THEN [res |-> u.res, w |-> u.w, calls |-> c2, predictions |-> preds]
                      ELSE InteractiveLoop(m, d, Tail(trials), u.w, [calls |-> c2, predictions |-> preds])

\* InteractiveTest.predict_single(model, observations)
InteractivePredictSingle(m, d, obs, w) ==
    LET r == ModelCall(m, d, "reset", <<>>, w)
        c0 == <<CallRec("reset", <<>>, r.ret)>>
    IN  IF r.res # "ok"
        THEN [res |-> r.res, w |-> r.w, calls |-> c0, predictions |-> <<>>]
        ELSE InteractiveLoop(m, d, Zip3(obs.stimuli, obs.rewards, obs.actions), r.w,
                             [calls |-> c0, predictions |-> <<>>])

RECURSIVE SumSeq(_)
SumSeq(s) ==
    IF s = <<>> THEN 0 ELSE Head(s) + SumSeq(Tail(s))

\* The caller's fn_kwargs_for_score(model, observations, predictions): here
\* a keyword `eps` computed from the observations and the predictions.
FnKwargsForScore(obs, preds) ==
    [eps |-> (Len(obs.actions) + SumSeq(preds)) % 2]

\* A get_kwargs_for_compute_score that never calls the caller's function.
GetKwargsEmpty(t, obs, preds) ==
    EmptyFn

\* LDMTest.get_kwargs_for_compute_score
GetKwargsForComputeScore(t, obs, preds) ==
    IF t.fn_kwargs_for_score THEN FnKwargsForScore(obs, preds) ELSE EmptyFn

\* The evaluations of fn_kwargs_for_score after get_kwargs_for_compute_score
\* ran for subject idx: one more when a function was supplied.
KwEvalsAfter(t, log, idx, obs, preds) ==
    IF t.fn_kwargs_for_score
    THEN Append(log, [idx |-> idx, obs |-> obs, preds |-> preds])
    ELSE log

\* score_type.compute(actions, predictions, **kwargs).score: the number of
\* trials whose prediction is the observed action, plus the keyword eps.
ScoreCompute(actions, preds, kw) ==
    Cardinality({k \in 1..Min2(Len(actions), Len(preds)) : actions[k] = preds[k]})
    + (IF "eps" \in DOMAIN kw THEN kw.eps ELSE 0)

\* InteractiveTest.compute_score_single(observations, predictions, **kwargs)
InteractiveComputeScoreSingle(obs, preds, kw) ==
    ScoreCompute(obs.actions, preds, kw)

\* np.mean, the default score_aggr_fn, as the fraction num/den (0/0: nan).
ScoreAggrMean(scores) ==
    [num |-> SumSeq(scores), den |-> Len(scores)]

\* A compute_score whose loop stops one subject short.
ComputeScoreShort(t, observations, preds, kws) ==
    ScoreAggrMean([i \in 1..(Len(observations) - 1) |->
                      InteractiveComputeScoreSingle(observations[i], preds[i], kws[i])])

\* LDMTest.compute_score(observation, predictions)
ComputeScore(t, observations, preds, kws) ==
    IF t.multi_subject
    THEN ScoreAggrMean([i \in 1..Len(observations) |->
                           InteractiveComputeScoreSingle(observations[i], preds[i], kws[i])])
    ELSE [num |-> InteractiveComputeScoreSingle(observations[1], preds[1], kws[1]), den |-> 1]

Event(ev, idx) ==
    [ev |-> ev, idx |-> idx]

World ==
    [subj |-> subject_models, solo |-> solo]

\* The parameter list of the composite under test: one entry per subject.
ParamList(n) ==
    [k \in 1..n |-> 1 + ((k - 1) % MaxParam)]

\* The model classes handed to judge(): their capabilities, and whether the
\* class implements reset, predict and update.
ModelProfiles ==
    {[caps |-> {"LDMModel", "Interactive", "PredictsLogpdf"}, implements |-> TRUE],
     [caps |-> {"LDMModel", "PredictsLogpdf"}, implements |-> TRUE],
     [caps |-> {"LDMModel", "PredictsLogpdf"}, implements |-> FALSE],
     [caps |-> {"Interactive"}, implements |-> TRUE]}

\* The keyword arguments of a test that has not been constructed.
NoCtor ==
    [tp_num |-> -1, train_given |-> FALSE, test_given |-> FALSE]

\* Storage with nothing in it.
EmptyStore ==
    [dirs |-> {}, files |-> <<>>, fault |-> "none"]

\* No constructor arguments recorded, nothing evaluated, nothing stored.
AuxIdle ==
    /\ ctor = NoCtor
    /\ kw_evals = <<>>
    /\ store = EmptyStore

\* The run's variables while no test is running.
RunIdle ==
    /\ test = NoTest
    /\ observation = <<>>
    /\ mut = NoModel
    /\ solo = NewSubject(1)
    /\ pc = "off"
    /\ subj_idx = 0
    /\ predictions = <<>>
    /\ score_kwargs = <<>>
    /\ score = NoScore
    /\ err = None
    /\ calls = <<>>
    /\ events = <<>>
    /\ AuxIdle

\* ===================================================================
\*  Spec: the composite and the adapter, driven by any caller
\* ===================================================================
Init ==
    /\ made = {}
    /\ subject_models = [c \in Insts |-> <<>>]
    /\ cls = EmptyFn
    /\ inst = [c \in Insts |-> EmptyDict]
    /\ snap = [c \in Insts |-> EmptyFn]
    /\ last = NoLast
    /\ RunIdle

\* MultiCls(param_list): a composite instance is constructed.
Construct(c, param_list) ==
    /\ c \notin made
    /\ made' = made \cup {c}
    /\ subject_models' = [subject_models EXCEPT ![c] = MultiInitSubjects(param_list)]
    /\ cls' = MultiInitClass(c)
    /\ last' = [NoLast EXCEPT !.op = "construct", !.c = c]
    /\ UNCHANGED <<inst, snap>>
    /\ UNCHANGED runVars
    /\ UNCHANGED auxVars

\* single_from_multi_obj(model, bind_idx)
Bind(c, bind_idx) ==
    /\ c \in made
    /\ Outstanding(c) < MaxDepth
    /\ inst' = [inst EXCEPT ![c] = BindLoop(MethodNames, inst[c], cls, bind_idx)]
    /\ snap' = [snap EXCEPT ![c] = Resolved(c)]
    /\ last' = [NoLast EXCEPT !.op = "bind", !.c = c, !.idx = bind_idx]
    /\ UNCHANGED <<made, subject_models, cls>>
    /\ UNCHANGED runVars
    /\ UNCHANGED auxVars

\* reverse_single_from_multi_obj(model)
Unbind(c) ==
    /\ c \in made
    /\ LET r == ReverseLoop(MethodNames, inst[c])
       IN  /\ inst' = [inst EXCEPT ![c] = r.d]
           /\ last' = [NoLast EXCEPT !.op = "unbind", !.c = c,
                                     !.res = IF r.ok THEN "ok" ELSE "AttributeError"]
    /\ UNCHANGED <<made, subject_models, cls, snap>>
    /\ UNCHANGED runVars
    /\ UNCHANGED auxVars

\* model.<fn>(*args): a call of a fanned-out method of instance c, through
\* whatever the attribute resolves to (the composite's own method, taking a
\* leading subject index, or a bound handle's).
Invoke(c, fn, args) ==
    /\ c \in made
    /\ LET callable == GetAttr(inst[c], cls, fn)
           r == Dispatch(callable, fn, args, subject_models)
       IN  /\ subject_models' = r.subj
           /\ last' = [op |-> "invoke", c |-> c, res |-> r.res, fn |-> fn,
                       idx |-> IF callable.pre = <<>> THEN -1 ELSE Last(callable.pre),
                       tgt |-> r.tgt, ret |-> r.ret]
    /\ UNCHANGED <<made, cls, inst, snap>>
    /\ UNCHANGED runVars
    /\ UNCHANGED auxVars

Next ==
    \/ \E c \in Insts, param_list \in SeqsUpTo(1..MaxParam, MaxSubj) : Construct(c, param_list)
    \/ \E c \in Insts, bind_idx \in 0..MaxSubj : Bind(c, bind_idx)
    \/ \E c \in Insts : Unbind(c)
    \/ \E c \in Insts, fn \in Methods, args \in SeqsUpTo(0..1, MaxArgs) : Invoke(c, fn, args)

Spec ==
    Init /\ [][Next]_vars

\* ===================================================================
\*  SpecRun: one judge() of an InteractiveTest
\* ===================================================================
InitRun ==
    /\ made = {1}
    /\ \E n \in 0..MaxSubj : subject_models = [c \in Insts |-> IF c = 1 THEN MultiInitSubjects(ParamList(n)) ELSE <<>>]
    /\ cls = MultiInitClass(1)
    /\ inst = [c \in Insts |-> EmptyDict]
    /\ snap = [c \in Insts |-> EmptyFn]
    /\ last = NoLast
    /\ \E st \in ScoreTypes, ms \in BOOLEAN, kw \in BOOLEAN :
          /\ test = LDMTestInit(InteractiveRequired, st, ms, kw)
          /\ observation \in (IF ms THEN SeqsUpTo(MultiObsSets, MaxSubj) ELSE [1..1 -> ObsSets])
    /\ mut = NoModel
    /\ solo = NewSubject(1)
    /\ pc = "idle"
    /\ subj_idx = 0
    /\ predictions = <<>>
    /\ score_kwargs = <<>>
    /\ score = NoScore
    /\ err = None
    /\ calls = <<>>
    /\ events = <<>>
    /\ AuxIdle

\* test.judge(model): check_capabilities comes first.
Judge(kind, profile) ==
    /\ pc = "idle"
    /\ LET caps == profile.caps \cup (IF kind = "multi" THEN {"MultiSubjectModel"} ELSE {})
           res == CheckCapabilities(test.required_capabilities, caps)
       IN  /\ mut' = [kind |-> kind, caps |-> caps, implements |-> (kind = "multi" \/ profile.implements)]
           /\ err' = IF res = "ok" THEN None ELSE res
           /\ pc' = IF res = "ok" THEN "generate" ELSE "done"
    /\ UNCHANGED <<test, observation, solo, subj_idx, predictions, score_kwargs, score, calls, events>>
    /\ UNCHANGED adapterVars
    /\ UNCHANGED auxVars

\* generate_prediction, up to its loop.
GP_Enter ==
    /\ pc = "generate"
    /\ IF test.multi_subject
       THEN IF "MultiSubjectModel" \notin mut.caps
            THEN err' = "AssertionError" /\ pc' = "done"
            ELSE err' = err /\ pc' = (IF Len(observation) = 0 THEN "score" ELSE "bind")
       ELSE err' = err /\ pc' = "single"
    /\ subj_idx' = 0
    /\ UNCHANGED <<test, observation, mut, solo, predictions, score_kwargs, score, calls, events>>
    /\ UNCHANGED adapterVars
    /\ UNCHANGED auxVars

\* single_subj_adapter = single_from_multi_obj(model, subj_idx)
GP_Bind ==
    /\ pc = "bind"
    /\ inst' = [inst EXCEPT ![1] = BindLoop(MethodNames, inst[1], cls, subj_idx)]
    /\ events' = Append(events, Event("bind", subj_idx))
    /\ pc' = "predict"
    /\ UNCHANGED <<test, observation, mut, solo, subj_idx, predictions, score_kwargs, score, err, calls>>
    /\ UNCHANGED <<made, subject_models, cls, snap, last>>
    /\ UNCHANGED auxVars

\* pred_single = self.predict_single(single_subj_adapter, observations[subj_idx])
GP_Predict ==
    /\ pc = "predict"
    /\ LET r == InteractivePredictSingle(mut, inst[1], observation[subj_idx + 1], World)
       IN  /\ subject_models' = r.w.subj
           /\ solo' = r.w.solo
           /\ calls' = r.calls
           /\ IF r.res = "ok"
              THEN predictions' = Append(predictions, r.predictions) /\ err' = err /\ pc' = "kwargs"
              ELSE predictions' = predictions /\ err' = r.res /\ pc' = "done"
    /\ events' = Append(events, Event("predict_single", subj_idx))
    /\ UNCHANGED <<test, observation, mut, subj_idx, score_kwargs, score>>
    /\ UNCHANGED <<made, cls, inst, snap, last>>
    /\ UNCHANGED auxVars

\* score_kwargs.append(self.get_kwargs_for_compute_score(...))
GP_Kwargs ==
    /\ pc = "kwargs"
    /\ score_kwargs' = Append(score_kwargs,
            GetKwargsForComputeScore(test, observation[subj_idx + 1], predictions[subj_idx + 1]))
    /\ pc' = "unbind"
    /\ UNCHANGED <<test, observation, mut, solo, subj_idx, predictions, score, err, calls, events>>
    /\ UNCHANGED adapterVars
    /\ kw_evals' = KwEvalsAfter(test, kw_evals, subj_idx, observation[subj_idx + 1], predictions[subj_idx + 1])
    /\ UNCHANGED <<ctor, store>>

\* A loop body that goes on to the next subject without unbinding.
GP_UnbindMissing ==
    /\ pc = "unbind"
    /\ subj_idx' = subj_idx + 1
    /\ pc' = (IF subj_idx + 1 < Len(observation) THEN "bind" ELSE "score")
    /\ UNCHANGED <<test, observation, mut, solo, predictions, score_kwargs, score, err, calls, events>>
    /\ UNCHANGED adapterVars
    /\ UNCHANGED auxVars

\* model = reverse_single_from_multi_obj(single_subj_adapter), and the loop's
\* next round or its end.
GP_Unbind ==
    /\ pc = "unbind"
    /\ LET r == ReverseLoop(MethodNames, inst[1])
       IN  /\ inst' = [inst EXCEPT ![1] = r.d]
           /\ IF r.ok
              THEN /\ err' = err
                   /\ subj_idx' = subj_idx + 1
                   /\ pc' = (IF subj_idx + 1 < Len(observation) THEN "bind" ELSE "score")
              ELSE /\ err' = "AttributeError"
                   /\ subj_idx' = subj_idx
                   /\ pc' = "done"
    /\ events' = Append(events, Event("unbind", subj_idx))
    /\ UNCHANGED <<test, observation, mut, solo, predictions, score_kwargs, score, calls>>
    /\ UNCHANGED <<made, subject_models, cls, snap, last>>
    /\ UNCHANGED auxVars

\* generate_prediction of a test that is not multi-subject.
GP_Single ==
    /\ pc = "single"
    /\ LET r == InteractivePredictSingle(mut, inst[1], observation[1], World)
       IN  /\ subject_models' = r.w.subj
           /\ solo' = r.w.solo
           /\ calls' = r.calls
           /\ IF r.res = "ok"
              THEN /\ predictions' = <<r.predictions>>
                   /\ score_kwargs' = <<GetKwargsForComputeScore(test, observation[1], r.predictions)>>
                   /\ kw_evals' = KwEvalsAfter(test, kw_evals, 0, observation[1], r.predictions)
                   /\ err' = err
                   /\ pc' = "score"
              ELSE /\ predictions' = predictions
                   /\ score_kwargs' = score_kwargs
                   /\ kw_evals' = kw_evals
                   /\ err' = r.res
                   /\ pc' = "done"
    /\ events' = Append(events, Event("predict_single", 0))
    /\ UNCHANGED <<test, observation, mut, subj_idx, score>>
    /\ UNCHANGED <<made, cls, inst, snap, last>>
    /\ UNCHANGED <<ctor, store>>

\* score = self.compute_score(observation, prediction)
RunComputeScore ==
    /\ pc = "score"
    /\ score' = ComputeScore(test, observation, predictions, score_kwargs)
    /\ pc' = "done"
    /\ UNCHANGED <<test, observation, mut, solo, subj_idx, predictions, score_kwargs, err, calls, events>>
    /\ UNCHANGED adapterVars
    /\ UNCHANGED auxVars

NextRun ==
    \/ \E kind \in {"single", "multi"}, profile \in ModelProfiles : Judge(kind, profile)
    \/ GP_Enter
    \/ GP_Bind
    \/ GP_Predict
    \/ GP_Kwargs
    \/ GP_Unbind
    \/ GP_Single
    \/ RunComputeScore

SpecRun ==
    InitRun /\ [][NextRun]_vars

\* ===================================================================
\*  BatchTrainAndTest
\* ===================================================================

\* An optional keyword argument: None, or a value.
NoneArg ==
    [some |-> FALSE, v |-> <<>>]

Some(v) ==
    [some |-> TRUE, v |-> v]

\* int(n * f), truncation, in place of round.
PyTrunc(num, den) ==
    num \div den

\* Python's round(num / den) of a non-negative quotient: to the nearest
\* integer, a tie to the even one.
PyRound(num, den) ==
    LET q == num \div den
        r == num % den
    IN  IF 2 * r < den THEN q
        ELSE IF 2 * r > den THEN q + 1
        ELSE IF q % 2 = 0 THEN q
        ELSE q + 1

\* np.arange(n_obs) after RandomState(seed).shuffle: the seed picks the
\* permutation perm of 1..n_obs.
ShuffledIndices(perm) ==
    [k \in 1..Len(perm) |-> perm[k] - 1]

\* The random split: indices[:n_train] and indices[n_train:], n_train =
\* round(n_obs * train_percentage), train_percentage = tp_num / PctDen.
SplitIndices(indices, tp_num) ==
    LET n_train == PyRound(Len(indices) * tp_num, PctDen)
    IN  [train |-> SubSeq(indices, 1, n_train),
         test |-> SubSeq(indices, n_train + 1, Len(indices))]

\* A constructor that takes train_indices without test_indices: the test
\* indices are then whatever was passed, None.
BatchTrainAndTestInitUnpaired(obs, tp_num, perm, train_indices, test_indices) ==
    LET base == LDMTestInit({"BatchTrainable"}, NoScoreType, FALSE, FALSE)
        mk(tr, te, explicit) ==
            [res |-> "ok",
             test |-> [multi_subject |-> base.multi_subject,
                       fn_kwargs_for_score |-> base.fn_kwargs_for_score,
                       required_capabilities |-> base.required_capabilities,
                       train_indices |-> tr, test_indices |-> te, explicit |-> explicit]]
        fail == [res |-> "AssertionError", test |-> NoTest]
    IN  IF ~(tp_num > 0 /\ tp_num < PctDen) THEN fail
        ELSE IF ~train_indices.some
        THEN IF test_indices.some THEN fail
             ELSE LET sp == SplitIndices(ShuffledIndices(perm), tp_num)
                  IN  mk(sp.train, sp.test, FALSE)
        ELSE mk(train_indices.v, test_indices.v, TRUE)

\* BatchTrainAndTest.__init__: [res, test]; res is "ok" or the error raised.
BatchTrainAndTestInit(obs, tp_num, perm, train_indices, test_indices) ==
    LET base == LDMTestInit({"BatchTrainable"}, NoScoreType, FALSE, FALSE)
        mk(tr, te, explicit) ==
            [res |-> "ok",
             test |-> [multi_subject |-> base.multi_subject,
                       fn_kwargs_for_score |-> base.fn_kwargs_for_score,
                       required_capabilities |-> base.required_capabilities,
                       train_indices |-> tr, test_indices |-> te, explicit |-> explicit]]
        fail == [res |-> "AssertionError", test |-> NoTest]
    IN  IF ~(tp_num > 0 /\ tp_num < PctDen) THEN fail
        ELSE IF ~train_indices.some
        THEN IF test_indices.some THEN fail
             ELSE LET sp == SplitIndices(ShuffledIndices(perm), tp_num)
                  IN  mk(sp.train, sp.test, FALSE)
        ELSE IF ~test_indices.some THEN fail
        ELSE mk(train_indices.v, test_indices.v, TRUE)

\* arr[indices] with an index array: [res, v].
TakeAt(arr, indices) ==
    IF \E k \in 1..Len(indices) : indices[k] >= Len(arr)
    THEN [res |-> "IndexError", v |-> <<>>]
    ELSE [res |-> "ok", v |-> [k \in 1..Len(indices) |-> arr[indices[k] + 1]]]

\* model.predict(x_test) of a batch-trainable model fitted on (x, y).
BatchModelPredict(x_train, y_train, x_test) ==
    [k \in 1..Len(x_test) |-> (SumSeq(y_train) + x_test[k]) % 2]

\* BatchTrainAndTest.predict_single: [res, calls, predictions].
BatchPredictSingle(t, obs) ==
    LET x_train == TakeAt(obs.stimuli, t.train_indices)
        y_train == TakeAt(obs.actions, t.train_indices)
        x_test == TakeAt(obs.stimuli, t.test_indices)
    IN  IF x_train.res # "ok"
        THEN [res |-> x_train.res, calls |-> <<>>, predictions |-> <<>>]
        ELSE LET fit == CallRec("fit", <<x_train.v, y_train.v>>, None)
             IN  IF x_test.res # "ok"
                 THEN [res |-> x_test.res, calls |-> <<fit>>, predictions |-> <<>>]
                 ELSE LET preds == BatchModelPredict(x_train.v, y_train.v, x_test.v)
                      IN  [res |-> "ok",
                           calls |-> <<fit, CallRec("predict", <<x_test.v>>, preds)>>,
                           predictions |-> preds]

\* A compute_score_single that takes the actions at the train indices.
BatchScoreIndicesTrain(t) ==
    t.train_indices

\* The indices compute_score_single reads the observed actions at.
BatchScoreIndices(t) ==
    t.test_indices

\* BatchTrainAndTest.compute_score_single: what it hands to
\* score_type.compute, and the score: [res, used, actions, score].
BatchComputeScoreSingle(t, obs, preds, kw) ==
    LET actions == TakeAt(obs.actions, BatchScoreIndices(t))
    IN  [res |-> actions.res,
         used |-> BatchScoreIndices(t),
         actions |-> actions.v,
         score |-> IF actions.res = "ok" THEN ScoreCompute(actions.v, preds, kw) ELSE 0]

\* The observations of a batch test over n trials: the stimulus of a trial
\* is its index.
BatchObs(n) ==
    [stimuli |-> [k \in 1..n |-> k - 1],
     rewards |-> [k \in 1..n |-> 0],
     actions |-> [k \in 1..n |-> (k - 1) % 2]]

IndexArrays ==
    SeqsUpTo(0..(MaxObs - 1), MaxIdx)

\* ===================================================================
\*  SpecBatch: a BatchTrainAndTest, from its construction to its score
\* ===================================================================
InitBatch ==
    /\ made = {}
    /\ subject_models = [c \in Insts |-> <<>>]
    /\ cls = EmptyFn
    /\ inst = [c \in Insts |-> EmptyDict]
    /\ snap = [c \in Insts |-> EmptyFn]
    /\ last = NoLast
    /\ test = NoTest
    /\ \E n \in 0..MaxObs : observation = <<BatchObs(n)>>
    /\ mut = NoModel
    /\ solo = NewSubject(1)
    /\ pc = "new"
    /\ subj_idx = 0
    /\ predictions = <<>>
    /\ score_kwargs = <<>>
    /\ score = NoScore
    /\ err = None
    /\ calls = <<>>
    /\ events = <<>>
    /\ AuxIdle

\* BatchTrainAndTest(observation=..., train_percentage=..., seed=...,
\* train_indices=..., test_indices=...)
BatchConstruct(tp_num, perm, train_indices, test_indices) ==
    /\ pc = "new"
    /\ LET r == BatchTrainAndTestInit(observation[1], tp_num, perm, train_indices, test_indices)
       IN  /\ test' = r.test
           /\ err' = IF r.res = "ok" THEN None ELSE r.res
           /\ pc' = IF r.res = "ok" THEN "ready" ELSE "done"
    /\ UNCHANGED <<observation, mut, solo, subj_idx, predictions, score_kwargs, score, calls, events>>
    /\ UNCHANGED adapterVars
    /\ ctor' = [tp_num |-> tp_num, train_given |-> train_indices.some, test_given |-> test_indices.some]
    /\ UNCHANGED <<kw_evals, store>>

\* prediction = self.predict_single(model, observations)
BatchPredict ==
    /\ pc = "ready"
    /\ LET r == BatchPredictSingle(test, observation[1])
       IN  /\ calls' = r.calls
           /\ predictions' = IF r.res = "ok" THEN <<r.predictions>> ELSE predictions
           /\ score_kwargs' = IF r.res = "ok" THEN <<EmptyFn>> ELSE score_kwargs
           /\ err' = IF r.res = "ok" THEN None ELSE r.res
           /\ pc' = IF r.res = "ok" THEN "predicted" ELSE "done"
    /\ UNCHANGED <<test, observation, mut, solo, subj_idx, score, events>>
    /\ UNCHANGED adapterVars
    /\ UNCHANGED auxVars

\* self.compute_score_single(observations, predictions, **self.score_kwargs)
BatchScore ==
    /\ pc = "predicted"
    /\ LET r == BatchComputeScoreSingle(test, observation[1], predictions[1], score_kwargs[1])
       IN  /\ events' = Append(events, [ev |-> "compute", used |-> r.used, actions |-> r.actions])
           /\ score' = IF r.res = "ok" THEN [num |-> r.score, den |-> 1] ELSE score
           /\ err' = IF r.res = "ok" THEN None ELSE r.res
           /\ pc' = IF r.res = "ok" THEN "scored" ELSE "done"
    /\ UNCHANGED <<test, observation, mut, solo, subj_idx, predictions, score_kwargs, calls>>
    /\ UNCHANGED adapterVars
    /\ UNCHANGED auxVars

NextBatch ==
    \/ /\ pc = "new"
       /\ \E tp_num \in 0..PctDen, perm \in Perms(Len(observation[1].stimuli)),
             train_indices \in {NoneArg} \cup {Some(v) : v \in IndexArrays},
             test_indices \in {NoneArg} \cup {Some(v) : v \in IndexArrays} :
             BatchConstruct(tp_num, perm, train_indices, test_indices)
    \/ BatchPredict
    \/ BatchScore

SpecBatch ==
    InitBatch /\ [][NextBatch]_vars

\* ===================================================================
\*  Persistence: LDMTest.bind_score
\* ===================================================================

TestClasses ==
    {"InteractiveTest", "BatchTrainAndTest"}

\* The persistence methods each class body defines.
ClassDefines(klass) ==
    IF klass = "LDMTest"
    THEN {"bind_score", "_persist_score", "_persist_predictions", "_persist_model"}
    ELSE IF klass = "BatchTrainAndTest" THEN {"persist_predictions"}
    ELSE {}

\* self.<name> of a test of class klass, a subclass of LDMTest: the class
\* whose definition the attribute resolves to, or "none".
Lookup(klass, name) ==
    IF name \in ClassDefines(klass) THEN klass
    ELSE IF name \in ClassDefines("LDMTest") THEN "LDMTest"
    ELSE "none"

\* os.path.join(folderpath, leaf): the folder, and the file name as the
\* sequence of the parts it is put together from.
PathJoin(folder, leaf) ==
    [folder |-> folder, leaf |-> <<leaf>>]

\* f"{path}{suffix}"
WithSuffix(path, suffix) ==
    [path EXCEPT !.leaf = Append(@, suffix)]

\* np.save(path, content) on storage st: [res, st]. The storage's fault names
\* the write that fails.
NpSave(st, path, content, what) ==
    IF st.fault = what
    THEN [res |-> "OSError", st |-> st]
    ELSE [res |-> "ok",
          st |-> [st EXCEPT !.files = Append(st.files, [path |-> path, content |-> content])]]

\* LDMTest._persist_predictions
LDMPersistPredictions(st, path, preds) ==
    NpSave(st, path, preds, "predictions")

\* BatchTrainAndTest.persist_predictions: the indices, then the base class's
\* persist_predictions, a name LDMTest does not define.
BatchPersistPredictions(t, st, path, preds) ==
    LET r == NpSave(st, WithSuffix(path, "_indices"), t.test_indices, "indices")
    IN  IF r.res # "ok" THEN r
        ELSE IF Lookup("LDMTest", "persist_predictions") = "none"
        THEN [res |-> "AttributeError", st |-> r.st]
        ELSE LDMPersistPredictions(r.st, path, preds)

\* A _persist_model that lets every exception through.
PersistModelNoCatch(st, path, model) ==
    IF model.save = "none" THEN [res |-> "AttributeError", st |-> st, calls |-> <<>>]
    ELSE IF model.save = "ok"
    THEN [res |-> "ok",
          st |-> [st EXCEPT !.files = Append(st.files, [path |-> path, content |-> model.name])],
          calls |-> <<CallRec("save", <<path>>, None)>>]
    ELSE [res |-> model.save, st |-> st, calls |-> <<CallRec("save", <<path>>, None)>>]

\* LDMTest._persist_model: model.save(path); an AttributeError, from the
\* missing attribute or from inside save, is caught. [res, st, calls].
PersistModel(st, path, model) ==
    IF model.save = "none" THEN [res |-> "ok", st |-> st, calls |-> <<>>]
    ELSE IF model.save = "ok"
    THEN [res |-> "ok",
          st |-> [st EXCEPT !.files = Append(st.files, [path |-> path, content |-> model.name])],
          calls |-> <<CallRec("save", <<path>>, None)>>]
    ELSE IF model.save = "AttributeError"
    THEN [res |-> "ok", st |-> st, calls |-> <<CallRec("save", <<path>>, None)>>]
    ELSE [res |-> model.save, st |-> st, calls |-> <<CallRec("save", <<path>>, None)>>]

\* LDMTest.bind_score(score, model, observation, prediction) of a test of
\* class klass constructed with persist_path: [res, st, calls].
BindScoreOp(klass, t, persist_path, model, sc, prediction, st) ==
    IF persist_path = None THEN [res |-> "ok", st |-> st, calls |-> <<>>]
    ELSE LET folderpath == <<persist_path, model.name>>
         IN  IF st.fault = "makedirs" THEN [res |-> "OSError", st |-> st, calls |-> <<>>]
             ELSE LET st1 == [st EXCEPT !.dirs = st.dirs \cup {folderpath}]
                      s == NpSave(st1, PathJoin(folderpath, "score"), sc, "score")
                  IN  IF s.res # "ok" THEN [res |-> s.res, st |-> s.st, calls |-> <<>>]
                      ELSE LET pred_filepath == PathJoin(folderpath, "predictions")
                               p == IF Lookup(klass, "_persist_predictions") = "LDMTest"
                                    THEN LDMPersistPredictions(s.st, pred_filepath, prediction)
                                    ELSE BatchPersistPredictions(t, s.st, pred_filepath, prediction)
                           IN  IF p.res # "ok" THEN [res |-> p.res, st |-> p.st, calls |-> <<>>]
                               ELSE PersistModel(p.st, PathJoin(folderpath, "model"), model)

\* The models whose run is persisted: a name, and what model.save does
\* ("none": the model has no save attribute).
PersistModels ==
    [name : {"M", "N"}, save : {"none", "ok", "AttributeError", "OSError"},
     kind : {"single"}, caps : {{"LDMModel"}}, implements : {TRUE}]

\* ===================================================================
\*  SpecPersist: bind_score after a finished run
\* ===================================================================
InitPersist ==
    /\ made = {}
    /\ subject_models = [c \in Insts |-> <<>>]
    /\ cls = EmptyFn
    /\ inst = [c \in Insts |-> EmptyDict]
    /\ snap = [c \in Insts |-> EmptyFn]
    /\ last = NoLast
    /\ \E klass \in TestClasses, persist_path \in {None, "logs"}, te \in IndexArrays :
          /\ ctor = [tp_num |-> -1, train_given |-> (klass = "BatchTrainAndTest"),
                     test_given |-> (klass = "BatchTrainAndTest"),
                     klass |-> klass, persist_path |-> persist_path]
          /\ test = IF klass = "BatchTrainAndTest"
                    THEN BatchTrainAndTestInit(BatchObs(MaxObs), 1, <<>>, Some(<<>>), Some(te)).test
                    ELSE LDMTestInit(InteractiveRequired, NoScoreType, FALSE, FALSE)
          /\ klass = "InteractiveTest" => te = <<>>
    /\ observation = <<BatchObs(MaxObs)>>
    /\ mut \in PersistModels
    /\ solo = NewSubject(1)
    /\ pc = "judged"
    /\ subj_idx = 0
    /\ \E preds \in SeqsUpTo(0..1, 1) : predictions = <<preds>>
    /\ score_kwargs = <<EmptyFn>>
    /\ \E num \in 0..1 : score = [num |-> num, den |-> 1]
    /\ err = None
    /\ calls = <<>>
    /\ events = <<>>
    /\ kw_evals = <<>>
    /\ \E dirs \in SUBSET {<<"logs", "M">>},
          fault \in {"none", "makedirs", "score", "predictions"} :
          store = [dirs |-> dirs, files |-> <<>>, fault |-> fault]

\* self.bind_score(score, model, observation, prediction), judge()'s last step
BindScore ==
    /\ pc = "judged"
    /\ LET r == BindScoreOp(ctor.klass, test, ctor.persist_path, mut, score, predictions[1], store)
       IN  /\ store' = r.st
           /\ calls' = r.calls
           /\ err' = IF r.res = "ok" THEN None ELSE r.res
           /\ pc' = IF r.res = "ok" THEN "bound" ELSE "done"
    /\ UNCHANGED <<test, observation, mut, solo, subj_idx, predictions, score_kwargs, score, events>>
    /\ UNCHANGED adapterVars
    /\ UNCHANGED <<ctor, kw_evals>>

NextPersist ==
    BindScore

SpecPersist ==
    InitPersist /\ [][NextPersist]_vars

\* ===================================================================
\*  fit_jointly
\* ===================================================================

\* The parameters of the single-subject fit, in the order of its signature.
FitParams ==
    <<"stimuli", "rewards", "actions">>

\* model.fit(*curr_args, **curr_kwargs): positional arguments fill the
\* parameters from the left, keywords the rest; [res, st].
SubjFitCall(st, curr_args, curr_kwargs) ==
    LET npos == Len(curr_args)
        given(k) == IF k <= npos THEN curr_args[k] ELSE curr_kwargs[FitParams[k]]
    IN  IF \/ npos > Len(FitParams)
           \/ \E k \in 1..Len(FitParams) :
                 /\ k <= npos
                 /\ FitParams[k] \in DOMAIN curr_kwargs
           \/ \E k \in 1..Len(FitParams) :
                 /\ k > npos
                 /\ FitParams[k] \notin DOMAIN curr_kwargs
        THEN [res |-> "TypeError", st |-> st]
        ELSE [res |-> "ok", st |-> SubjFit(st, given(1), given(2), given(3))]

\* One call of a subject model's fit, as fit_jointly makes it.
FitCall(i, curr_args, curr_kwargs) ==
    [fn |-> "fit", idx |-> i, args |-> curr_args, kwargs |-> curr_kwargs]

\* A loop that hands every subject the first element of each argument.
RECURSIVE FitJointlyLoopFirst(_, _, _, _, _)
FitJointlyLoopFirst(models, i, args, kwargs, acc) ==
    IF i >= Len(models)
    THEN [res |-> "ok", models |-> models, calls |-> acc]
    ELSE IF \/ \E k \in 1..Len(args) : Len(args[k]) <= 0
            \/ \E k \in DOMAIN kwargs : Len(kwargs[k]) <= 0
    THEN [res |-> "IndexError", models |-> models, calls |-> acc]
    ELSE LET curr_args == [k \in 1..Len(args) |-> args[k][1]]
             curr_kwargs == [k \in DOMAIN kwargs |-> kwargs[k][1]]
             r == SubjFitCall(models[i + 1], curr_args, curr_kwargs)
             log == Append(acc, FitCall(i, curr_args, curr_kwargs))
         IN  IF r.res # "ok"
             THEN [res |-> r.res, models |-> models, calls |-> log]
             ELSE FitJointlyLoopFirst([models EXCEPT ![i + 1] = r.st], i + 1, args, kwargs, log)

\* fit_jointly's loop `for i, model in enumerate(self.subject_models)`, from
\* subject i on: [res, models, calls].
RECURSIVE FitJointlyLoop(_, _, _, _, _)
FitJointlyLoop(models, i, args, kwargs, acc) ==
    IF i >= Len(models)
    THEN [res |-> "ok", models |-> models, calls |-> acc]
    ELSE IF \/ \E k \in 1..Len(args) : Len(args[k]) <= i
            \/ \E k \in DOMAIN kwargs : Len(kwargs[k]) <= i
    THEN [res |-> "IndexError", models |-> models, calls |-> acc]
    ELSE LET curr_args == [k \in 1..Len(args) |-> args[k][i + 1]]
             curr_kwargs == [k \in DOMAIN kwargs |-> kwargs[k][i + 1]]
             r == SubjFitCall(models[i + 1], curr_args, curr_kwargs)
             log == Append(acc, FitCall(i, curr_args, curr_kwargs))
         IN  IF r.res # "ok"
             THEN [res |-> r.res, models |-> models, calls |-> log]
             ELSE FitJointlyLoop([models EXCEPT ![i + 1] = r.st], i + 1, args, kwargs, log)

\* A per-subject argument list: n elements, alternating from base on.
ArgList(base, n) ==
    [k \in 1..n |-> (base + k - 1) % 2]

\* One list per fit parameter, all of n elements.
JointLists(bases, n) ==
    [k \in Range(FitParams) |-> ArgList(bases[k], n)]

\* The parameters after the first npos.
RestParams(npos) ==
    {FitParams[k] : k \in (npos + 1)..Len(FitParams)}

\* How a caller splits the lists between positional and keyword arguments:
\* the first npos positionally and the rest by keyword, or with a keyword
\* left out, or with one given twice.
JointShapes ==
    UNION {{[npos |-> npos, kwnames |-> kwnames] :
               kwnames \in {RestParams(npos), RestParams(npos) \ {"actions"},
                            RestParams(npos) \cup {"stimuli"}}} :
           npos \in 0..Len(FitParams)}

\* The positional arguments of a fit_jointly call: the lists of the first
\* npos parameters.
JointArgs(npos, lists) ==
    [k \in 1..npos |-> lists[FitParams[k]]]

\* Its keyword arguments: the lists of the parameters in kwnames.
JointKwargs(kwnames, lists) ==
    [k \in kwnames |-> lists[k]]

\* ===================================================================
\*  SpecJoint: a composite and its fit_jointly
\* ===================================================================
InitJoint ==
    Init

\* model.fit_jointly(*args, **kwargs)
FitJointly(c, args, kwargs) ==
    /\ c \in made
    /\ LET r == FitJointlyLoop(subject_models[c], 0, args, kwargs, <<>>)
       IN  /\ subject_models' = [subject_models EXCEPT ![c] = r.models]
           /\ calls' = r.calls
           /\ last' = [NoLast EXCEPT !.op = "fit_jointly", !.c = c, !.res = r.res, !.fn = "fit"]
    /\ events' = <<[ev |-> "fit_jointly", args |-> args, kwargs |-> kwargs,
                    before |-> subject_models[c]]>>
    /\ UNCHANGED <<made, cls, inst, snap>>
    /\ UNCHANGED <<test, observation, mut, solo, pc, subj_idx, predictions, score_kwargs, score, err>>
    /\ UNCHANGED auxVars

NextJoint ==
    \/ \E c \in Insts, param_list \in SeqsUpTo(1..MaxParam, MaxSubj) : Construct(c, param_list)
    \/ \E c \in made, shape \in JointShapes, bases \in [Range(FitParams) -> 0..1], n \in 0..MaxSubj :
          FitJointly(c, JointArgs(shape.npos, JointLists(bases, n)),
                        JointKwargs(shape.kwnames, JointLists(bases, n)))

SpecJoint ==
    InitJoint /\ [][NextJoint]_vars

\* ===================================================================
\*  SpecPair: two instances A and B of one composed class
\* ===================================================================

\* The two instances, A and B.
Pair ==
    {1, 2}

InitPair ==
    /\ made = {}
    /\ subject_models = [c \in Pair |-> <<>>]
    /\ cls = EmptyFn
    /\ inst = [c \in Pair |-> EmptyDict]
    /\ snap = [c \in Pair |-> EmptyFn]
    /\ last = NoLast
    /\ RunIdle

NextPair ==
    \/ \E c \in Pair, param_list \in SeqsUpTo(1..MaxParam, MaxSubj) : Construct(c, param_list)
    \/ \E c \in Pair, fn \in Methods, args \in SeqsUpTo(0..1, MaxArgs) : Invoke(c, fn, args)

SpecPair ==
    InitPair /\ [][NextPair]_vars

\* ===================================================================
\*  SpecRepeat: predict_single twice on one model object
\* ===================================================================
InitRepeat ==
    /\ made = {}
    /\ subject_models = [c \in Insts |-> <<>>]
    /\ cls = EmptyFn
    /\ inst = [c \in Insts |-> EmptyDict]
    /\ snap = [c \in Insts |-> EmptyFn]
    /\ last = NoLast
    /\ test = LDMTestInit(InteractiveRequired, NoScoreType, FALSE, FALSE)
    /\ observation \in [1..1 -> ObsSets]
    /\ mut = [kind |-> "single", caps |-> {"LDMModel", "Interactive"}, implements |-> TRUE]
    /\ \E paras \in 1..MaxParam, hidden \in 0..(HiddenMod - 1) :
          solo = [paras |-> paras, hidden |-> hidden]
    /\ pc = "first"
    /\ subj_idx = 0
    /\ predictions = <<>>
    /\ score_kwargs = <<>>
    /\ score = NoScore
    /\ err = None
    /\ calls = <<>>
    /\ events = <<>>
    /\ AuxIdle

\* test.predict_single(model, observations), the first and the second time
RepeatPredictSingle ==
    /\ pc \in {"first", "second"}
    /\ LET r == InteractivePredictSingle(mut, inst[1], observation[1], World)
       IN  /\ solo' = r.w.solo
           /\ calls' = r.calls
           /\ predictions' = Append(predictions, r.predictions)
           /\ err' = IF r.res = "ok" THEN err ELSE r.res
    /\ pc' = IF pc = "first" THEN "second" ELSE "done"
    /\ events' = Append(events, Event("predict_single", 0))
    /\ UNCHANGED <<test, observation, mut, subj_idx, score_kwargs, score>>
    /\ UNCHANGED adapterVars
    /\ UNCHANGED auxVars

NextRepeat ==
    RepeatPredictSingle

SpecRepeat ==
    InitRepeat /\ [][NextRepeat]_vars

\* ===================================================================
\*  Properties of Spec
\* ===================================================================

\* The subject index of c's latest bind: the one its handle is bound to.
BoundIdx(c) ==
    Last(GetAttr(inst[c], cls, MethodNames[1]).pre)

\* C3: a fanned-out operation invoked through the handle bound to subject i
\* leaves the state of every subject model j # i unchanged.
C3_HandleLeavesOtherSubjects ==
    [][\A c \in Insts :
          (last'.op = "invoke" /\ last'.c = c /\ c \in made /\ Outstanding(c) >= 1)
          => \A o \in Insts : \A j \in 0..(Len(subject_models[o]) - 1) :
                j # BoundIdx(c) => subject_models'[o][j + 1] = subject_models[o][j + 1]]_vars

\* C6: after a bind followed by one unbind every fanned-out method resolves
\* to what it resolved to before the bind and no "<name>_multi" attribute
\* remains; on a composite left with no bind outstanding a call with
\* leading index j is routed exactly as the pre-bind callable routes it, to
\* the subject model at index j.
C6_UnbindRestores ==
    \A c \in made :
        (last.op = "unbind" /\ last.c = c /\ last.res = "ok")
        => /\ Resolved(c) = snap[c]
           /\ DOMAIN inst[c].multi = {}
           /\ Outstanding(c) = 0
                => \A fn \in Methods : \A j \in 0..(MaxSubj - 1) :
                      LET r == Dispatch(Resolved(c)[fn], fn, <<j>>, subject_models)
                          b == Dispatch(snap[c][fn], fn, <<j>>, subject_models)
                      IN  /\ r.owner = b.owner
                          /\ r.tgt = b.tgt
                          /\ r.res = b.res
                          /\ j < Len(subject_models[r.owner]) => r.tgt = j

C6_Witness ==
    /\ last.op = "unbind"
    /\ last.res = "ok"
    /\ Outstanding(last.c) = 0
    /\ Len(subject_models[last.c]) >= 2
    /\ Methods \subseteq DOMAIN inst[last.c].fns

\* C7: a bind requested while an earlier bind on the composite is
\* outstanding is reported as a failure and installs no second binding.
C7_BindWhileBoundRejected ==
    [][\A c \in Insts :
          (last'.op = "bind" /\ last'.c = c /\ c \in made /\ Outstanding(c) >= 1)
          => (last'.res # "ok" /\ inst'[c] = inst[c])]_vars

\* C8: unbind on a composite with no outstanding bind fails and leaves the
\* composite's attributes, and so its fanned-out operations, unchanged.
C8_UnbindWithoutBindFails ==
    [][\A c \in Insts :
          (last'.op = "unbind" /\ last'.c = c /\ c \in made /\ Outstanding(c) = 0)
          => (last'.res = "AttributeError" /\ inst'[c] = inst[c] /\ cls' = cls
              /\ \A fn \in Methods : GetAttr(inst'[c], cls', fn) = GetAttr(inst[c], cls, fn))]_vars

C8_Witness ==
    /\ last.op = "unbind"
    /\ last.res = "AttributeError"
    /\ Outstanding(last.c) = 0
    /\ Methods \subseteq DOMAIN inst[last.c].fns

\* ===================================================================
\*  Properties of SpecRun
\* ===================================================================

\* The composite under test as multi_init left it.
CompositeUntouched ==
    /\ subject_models[1] = MultiInitSubjects(ParamList(Len(subject_models[1])))
    /\ inst[1] = EmptyDict

\* C1: once check_capabilities has run on a model without the Interactive
\* capability, the run has failed with a capability error, no reset, predict
\* or update has been called and the model is unchanged.
C1_NonInteractiveRejected ==
    (pc # "idle" /\ "Interactive" \notin mut.caps)
    => /\ err \in {"CapabilityError", "Error"}
       /\ calls = <<>>
       /\ events = <<>>
       /\ solo = NewSubject(1)
       /\ CompositeUntouched

IsPrefix(s, t) ==
    Len(s) <= Len(t) /\ \A k \in 1..Len(s) : s[k] = t[k]

\* bind(0), predict_single(0), unbind(0), bind(1), ... for n subjects.
ExpectedEvents(n) ==
    [k \in 1..(3 * n) |->
        Event(CASE (k - 1) % 3 = 0 -> "bind"
                [] (k - 1) % 3 = 1 -> "predict_single"
                [] (k - 1) % 3 = 2 -> "unbind",
              (k - 1) \div 3)]

CountEvents(ev) ==
    Cardinality({k \in 1..Len(events) : events[k].ev = ev})

\* C2: a multi-subject generate_prediction handles the subjects in index
\* order, each as bind(i), predict_single on observations[i], unbind, the
\* unbind of i before the bind of i+1; at every point at most one binding
\* of the composite is outstanding.
C2_SubjectsInOrderOneBinding ==
    (test.multi_subject /\ mut.kind = "multi")
    => /\ IsPrefix(events, ExpectedEvents(Len(observation)))
       /\ Outstanding(1) = CountEvents("bind") - CountEvents("unbind")
       /\ Outstanding(1) <= 1
       /\ (pc \in {"score", "done"} /\ err = None)
            => events = ExpectedEvents(Len(observation))

C2_Witness ==
    /\ test.multi_subject
    /\ mut.kind = "multi"
    /\ pc = "done"
    /\ err = None
    /\ Len(observation) >= 2
    /\ Len(events) = 3 * Len(observation)

RECURSIVE SumOver(_, _)
SumOver(f, S) ==
    IF S = {} THEN 0
    ELSE LET x == CHOOSE y \in S : TRUE
         IN  f[x] + SumOver(f, S \ {x})

SubjectScores ==
    [i \in 1..Len(observation) |->
        InteractiveComputeScoreSingle(observation[i], predictions[i], score_kwargs[i])]

LatestObs ==
    IF ~test.multi_subject THEN observation[1]
    ELSE IF err = None THEN observation[Len(predictions)]
    ELSE observation[subj_idx + 1]

\* The call predict_single makes at position k, its return value left open.
ExpectedCall(obs, k) ==
    IF k = 1 THEN [fn |-> "reset", args |-> <<>>]
    ELSE IF k % 2 = 0 THEN [fn |-> "predict", args |-> <<obs.stimuli[k \div 2]>>]
    ELSE LET t == (k - 1) \div 2
         IN  [fn |-> "update", args |-> <<obs.stimuli[t], obs.rewards[t], obs.actions[t], 0>>]

\* C5: predict_single calls reset once, first, then for each trial in
\* order predict(stimulus) and update(stimulus, reward, action, False), the
\* predict of a trial after the update of the one before; the predictions
\* returned are the results of the predicts, one per trial, in trial order.
C5_InteractiveCallOrder ==
    calls # <<>>
    => LET obs == LatestObs
           n == Len(obs.stimuli)
       IN  /\ Len(calls) <= 2 * n + 1
           /\ \A k \in 1..Len(calls) :
                 calls[k].fn = ExpectedCall(obs, k).fn /\ calls[k].args = ExpectedCall(obs, k).args
           /\ err = None
                => /\ Len(calls) = 2 * n + 1
                   /\ Len(predictions[Len(predictions)]) = n
                   /\ \A t \in 1..n : predictions[Len(predictions)][t] = calls[2 * t].ret

C5_Witness ==
    /\ calls # <<>>
    /\ err = None
    /\ Len(LatestObs.stimuli) >= 2
    /\ Len(calls) = 2 * Len(LatestObs.stimuli) + 1
    /\ LatestObs.stimuli[1] # LatestObs.stimuli[2]

\* ===================================================================
\*  Properties of SpecBatch
\* ===================================================================

\* The elements of arr at the 0-based indices idx, in idx's order.
ElementsAt(arr, idx) ==
    [k \in 1..Len(idx) |-> arr[idx[k] + 1]]

FitsAndPredictsAtIndices ==
    LET obs == observation[1]
    IN  /\ Len(calls) = 2
        /\ calls[1].fn = "fit"
        /\ calls[1].args = <<ElementsAt(obs.stimuli, test.train_indices),
                              ElementsAt(obs.actions, test.train_indices)>>
        /\ calls[2].fn = "predict"
        /\ calls[2].args = <<ElementsAt(obs.stimuli, test.test_indices)>>
        /\ predictions[1] = calls[2].ret

ScoresAtTestIndices ==
    /\ Len(events) = 1
    /\ events[1].used = test.test_indices
    /\ events[1].actions = ElementsAt(observation[1].actions, test.test_indices)

C11_BadConfigFailsAtConstruction ==
    (pc # "new" /\ (ctor.train_given # ctor.test_given
                     \/ ~(ctor.tp_num > 0 /\ ctor.tp_num < PctDen)))
    => /\ pc = "done"
       /\ err = "AssertionError"
       /\ test = NoTest
       /\ calls = <<>>
       /\ events = <<>>

C11_Witness ==
    /\ pc = "done"
    /\ err = "AssertionError"
    /\ ctor.train_given
    /\ ~ctor.test_given
    /\ ctor.tp_num > 0
    /\ ctor.tp_num < PctDen

\* C12: a multi-subject test given a model that is not a MultiSubjectModel
\* (and that lacks nothing else the test requires) fails with a capability
\* error before any bind or model call.
C12_NonMultiModelCapabilityError ==
    (/\ pc # "idle"
     /\ test.multi_subject
     /\ mut.kind # "none"
     /\ "LDMModel" \in mut.caps
     /\ test.required_capabilities \subseteq mut.caps
     /\ "MultiSubjectModel" \notin mut.caps)
    => /\ pc = "done"
       /\ err = "CapabilityError"
       /\ events = <<>>
       /\ calls = <<>>

\* ===================================================================
\*  Properties of SpecPersist
\* ===================================================================

\* <persist_path>/<model name>/
Folder ==
    <<ctor.persist_path, mut.name>>

\* The files written so far, in the order of writing.
WrittenPaths ==
    [k \in 1..Len(store.files) |-> store.files[k].path]

\* C13: after a BatchTrainAndTest with a persist_path has bound its score
\* for model M, <persist_path>/M/ holds a predictions_indices file with the
\* test indices, besides score and predictions.
C13_BatchPersistsIndices ==
    (pc = "bound" /\ ctor.klass = "BatchTrainAndTest" /\ ctor.persist_path # None)
    => /\ PathJoin(Folder, "score") \in Range(WrittenPaths)
       /\ PathJoin(Folder, "predictions") \in Range(WrittenPaths)
       /\ \E k \in 1..Len(store.files) :
             /\ store.files[k].path = WithSuffix(PathJoin(Folder, "predictions"), "_indices")
             /\ store.files[k].content = test.test_indices

\* C14: with a persist_path, a failing model snapshot (no save, or a save
\* that raises) does not fail bind_score, while a failing write of the score
\* or of the predictions does.
C14_SnapshotFailureSwallowed ==
    (pc # "judged" /\ ctor.persist_path # None)
    => /\ (store.fault = "none" /\ mut.save # "ok") => (err = None /\ pc = "bound")
       /\ store.fault \in {"score", "predictions"} => (err = "OSError" /\ pc = "done")

\* C15: bind_score writes nothing when persist_path is None; with a
\* persist_path and working storage it creates <persist_path>/<name>/ if
\* absent, writes score, then predictions, then attempts model.save, and a
\* model without save still has its score and predictions written and the
\* call returns.
C15_BindScoreWrites ==
    [][(pc = "judged" /\ pc' # "judged")
       => IF ctor.persist_path = None
          THEN store' = store /\ err' = None /\ calls' = <<>>
          ELSE store.fault = "none"
               => /\ store'.dirs = store.dirs \cup {Folder}
                  /\ Len(store'.files) >= 2
                  /\ store'.files[1] = [path |-> PathJoin(Folder, "score"), content |-> score]
                  /\ store'.files[2] = [path |-> PathJoin(Folder, "predictions"),
                                         content |-> predictions[1]]
                  /\ mut.save # "none"
                       => calls' = <<CallRec("save", <<PathJoin(Folder, "model")>>, None)>>
                  /\ mut.save = "ok"
                       => /\ Len(store'.files) = 3
                          /\ store'.files[3].path = PathJoin(Folder, "model")
                  /\ mut.save = "none"
                       => /\ Len(store'.files) = 2
                          /\ calls' = <<>>
                          /\ err' = None
                          /\ pc' = "bound"]_vars

C15_Witness ==
    /\ pc = "bound"
    /\ ctor.persist_path # None
    /\ mut.save = "none"
    /\ Len(store.files) = 2
    /\ Folder \in store.dirs

\* ===================================================================
\*  Further properties of Spec
\* ===================================================================

\* C16: construction from an empty parameter list is rejected, so that no
\* composite has zero subject models.
C16_NoEmptyComposite ==
    \A c \in made : Len(subject_models[c]) >= 1

\* ===================================================================
\*  Properties of SpecPair
\* ===================================================================

\* C17: on a composite, a fanned-out method called with leading index i
\* forwards the remaining arguments to the composite's own subject model i,
\* returns that model's result and changes no other subject model, whatever
\* was called before.
C17_FanOutRoutesToOwnSubject ==
    [][\A c \in Pair, fn \in Methods, args \in SeqsUpTo(0..1, MaxArgs) :
          (/\ Invoke(c, fn, args)
           /\ Outstanding(c) = 0
           /\ args # <<>>
           /\ Head(args) < Len(subject_models[c]))
          => LET own == SubjCall(subject_models[c][Head(args) + 1], fn, Tail(args))
             IN  /\ last'.res = own.res
                 /\ last'.ret = own.ret
                 /\ last'.tgt = Head(args)
                 /\ subject_models' = [subject_models EXCEPT ![c][Head(args) + 1] = own.st]]_vars

\* ===================================================================
\*  Properties of SpecJoint
\* ===================================================================

\* C18: given one list per fit parameter, each with an element for every
\* subject, fit_jointly calls fit once per subject model in index order,
\* subject i with the i-th element of every positional and keyword argument,
\* and each subject model ends as its own fit on those elements leaves it.
C18_FitJointlySlices ==
    \A c \in made :
        LET call == events[1]
            npos == Len(call.args)
            N == Len(call.before)
            given(k) == IF k <= npos THEN call.args[k] ELSE call.kwargs[FitParams[k]]
        IN  (/\ last.op = "fit_jointly"
             /\ last.c = c
             /\ npos <= Len(FitParams)
             /\ DOMAIN call.kwargs = RestParams(npos)
             /\ \A k \in 1..Len(FitParams) : Len(given(k)) >= N)
            => /\ last.res = "ok"
               /\ Len(calls) = N
               /\ Len(subject_models[c]) = N
               /\ \A i \in 0..(N - 1) :
                     /\ calls[i + 1].fn = "fit"
                     /\ calls[i + 1].idx = i
                     /\ calls[i + 1].args = [k \in 1..npos |-> call.args[k][i + 1]]
                     /\ calls[i + 1].kwargs = [k \in DOMAIN call.kwargs |-> call.kwargs[k][i + 1]]
                     /\ subject_models[c][i + 1]
                          = SubjFit(call.before[i + 1], given(1)[i + 1], given(2)[i + 1], given(3)[i + 1])

C18_Witness ==
    /\ last.op = "fit_jointly"
    /\ last.res = "ok"
    /\ Len(calls) = 2
    /\ Len(calls[1].args) = 2
    /\ DOMAIN calls[1].kwargs = {"actions"}
    /\ calls[1].args # calls[2].args
    /\ calls[1].kwargs # calls[2].kwargs

\* ===================================================================
\*  Further properties of SpecRun
\* ===================================================================

\* The score of subject i under the keyword context the caller's function
\* yields for subject i's observations and predictions, or under none.
ScoreWithOwnContext ==
    [i \in 1..Len(observation) |->
        ScoreCompute(observation[i].actions, predictions[i],
                     IF test.fn_kwargs_for_score
                     THEN FnKwargsForScore(observation[i], predictions[i])
                     ELSE EmptyFn)]

\* C19: fn_kwargs_for_score is evaluated once per subject, in subject order,
\* with that subject's observations and predictions, only once those
\* predictions exist and before any score is computed; subject i is scored
\* under the context produced for subject i; without a function the
\* context is empty and nothing is evaluated.
C19_KwargsOncePerSubject ==
    /\ Len(score_kwargs) <= Len(predictions)
    /\ Len(predictions) <= Len(score_kwargs) + 1
    /\ IF test.fn_kwargs_for_score
       THEN /\ Len(kw_evals) = Len(score_kwargs)
            /\ \A i \in 1..Len(kw_evals) :
                  /\ kw_evals[i] = [idx |-> i - 1, obs |-> observation[i], preds |-> predictions[i]]
                  /\ score_kwargs[i] = FnKwargsForScore(observation[i], predictions[i])
       ELSE /\ kw_evals = <<>>
            /\ \A i \in 1..Len(score_kwargs) : score_kwargs[i] = EmptyFn
    /\ score # NoScore
         => /\ Len(score_kwargs) = Len(observation)
            /\ score.num = SumOver(ScoreWithOwnContext, 1..Len(observation))

C19_Witness ==
    /\ pc = "done"
    /\ score # NoScore
    /\ test.multi_subject
    /\ test.fn_kwargs_for_score
    /\ Len(kw_evals) = 2
    /\ score_kwargs[1] # score_kwargs[2]
    /\ ScoreWithOwnContext[1] # ScoreCompute(observation[1].actions, predictions[1], score_kwargs[2])

\* ===================================================================
\*  Properties of SpecRepeat
\* ===================================================================

\* C20: two runs of predict_single on the same model object with the same
\* observations, the second starting from the state the first left, return
\* the same prediction sequence.
C20_RepeatedRunsAgree ==
    (pc = "done" /\ err = None)
    => /\ Len(predictions) = 2
       /\ predictions[1] = predictions[2]
       /\ Len(predictions[1]) = Len(observation[1].stimuli)

C20_Witness ==
    /\ pc = "done"
    /\ err = None
    /\ Len(predictions[1]) >= 2
    /\ predictions[1][1] # predictions[1][2]
    /\ solo.hidden # 0

\* ===================================================================
\*  Properties of SpecRun: the binding after generate_prediction
\* ===================================================================

\* C21: whenever a multi-subject generate_prediction on a composite has
\* terminated, by returning (the run goes on to compute_score) or by an
\* exception of predict_single for some subject, the composite has no
\* outstanding binding: its fanned-out methods take a leading subject index.
C21_NoBindingAfterGeneratePrediction ==
    (test.multi_subject /\ mut.kind = "multi" /\ pc \in {"score", "done"})
    => /\ Outstanding(1) = 0
       /\ inst[1] = EmptyDict

\* ===================================================================
\*  Further properties of SpecPair
\* ===================================================================

\* C22: with instances A and B of one composed class, in any construction
\* order, every fanned-out method of an instance resolves to a function over
\* that instance's own subject_models, never over the other instance's;
\* constructing B leaves what A's methods resolve to as it was.
C22_RoutingStaysWithOwnInstance ==
    \A c \in made : \A fn \in Methods : Resolved(c)[fn].owner = c

====
